---- MODULE Spec2Model ----
(***************************************************************************)
(* Model of the medical-appointment facade of LR6_.py: the entities        *)
(* (User, ScheduleSlot, Appointment), the three default policies and the   *)
(* operations of MedicalSystemFacade, started from create_system().        *)
(*                                                                         *)
(* Objects held by reference are modelled by their position: a slot is its *)
(* index in self.slots, an appointment its index in self.appointments.     *)
(* uuid4() is modelled as the next unused number of the collection, which  *)
(* is fresh because nothing is ever removed from a collection.             *)
(***************************************************************************)
EXTENDS Integers, Sequences, FiniteSets, TLC

\* ---- bounds of the exploration -------------------------------------------
MaxAppointments == 2

\* ---- inputs ----------------------------------------------------------------
Names == {"alice", "bob"}
Passwords == {"pw1", "pw2"}
\* register draws its password from RegisterPasswords, login from Passwords
RegisterPasswords == {"pw1"}
\* the seeded doctors and slots that callers pass as arguments
DoctorArgs == {1}
SlotArgs == {0, 1, 2}

\* ---- program constants -----------------------------------------------------
NumSlots == 5
NumDoctors == 2

ACTIVE == "active"
CANCELED == "canceled"

MsgNoSlots == "no free slots"
MsgSlotTaken == "slot taken"
MsgCreated == "appointment created"
MsgCanceled == "appointment canceled"
MsgRescheduled == "appointment rescheduled"
MsgLoginFirst == "log in first"

SlotIds == 0 .. (NumSlots - 1)
DoctorIds == 1 .. NumDoctors
\* ids a caller may pass: every id in use, and one that is never issued
AppointmentIds == 1 .. (MaxAppointments + 1)

\* Optional[User] = None
None == [id |-> 0, name |-> "", password |-> ""]

\* LR6_.py: the facade's collections, its session and the last call made
VARIABLES users, slots, appointments, current_user, lastCall
\* modul2.py: each publisher's observers, each student's inbox, the last call
VARIABLES observers, inbox, obsCall
\* LR4.py: the city, the frame of the running generator, what it yielded and
\* what print_empty_houses printed
VARIABLES city, gen, yielded, printed
\* modul.py: the builder's fields, the order it built, the last call made
VARIABLES builder, order, orderCall

facadeVars == <<users, slots, appointments, current_user, lastCall>>
observerVars == <<observers, inbox, obsCall>>
cityVars == <<city, gen, yielded, printed>>
orderVars == <<builder, order, orderCall>>

vars == <<users, slots, appointments, current_user, lastCall,
          observers, inbox, obsCall, city, gen, yielded, printed,
          builder, order, orderCall>>

\* the other programs of the repository are not running
NoObserver ==
    /\ observers = <<>>
    /\ inbox = <<>>
    /\ obsCall = <<>>

NoCity ==
    /\ city = <<>>
    /\ gen = <<>>
    /\ yielded = <<>>
    /\ printed = <<>>

NoOrder ==
    /\ builder = <<>>
    /\ order = <<>>
    /\ orderCall = <<>>

\* ---- entities --------------------------------------------------------------

User(id, name, password) == [id |-> id, name |-> name, password |-> password]

reserve(sl, s) == [sl EXCEPT ![s] = FALSE]

release(sl, s) == [sl EXCEPT ![s] = TRUE]

Heap(apps, sl) == [appointments |-> apps, slots |-> sl]

\* the appointment is dropped from the collection instead of being marked
Appointment_cancel_remove(apps, sl, i) ==
    Heap(SubSeq(apps, 1, i - 1) \o SubSeq(apps, i + 1, Len(apps)),
         release(sl, apps[i].slot))

Appointment_cancel_noRelease(apps, sl, i) ==
    Heap([apps EXCEPT ![i].status = CANCELED], sl)

Appointment_cancel(apps, sl, i) ==
    Heap([apps EXCEPT ![i].status = CANCELED], release(sl, apps[i].slot))

\* the move is made by canceling and booking again
Appointment_reschedule_asCancelAndNew(apps, sl, i, new_slot) ==
    Heap(Append([apps EXCEPT ![i].status = CANCELED],
                [apps[i] EXCEPT !.id = Len(apps) + 1, !.slot = new_slot]),
         reserve(release(sl, apps[i].slot), new_slot))

Appointment_reschedule_noRelease(apps, sl, i, new_slot) ==
    Heap([apps EXCEPT ![i].slot = new_slot], reserve(sl, new_slot))

Appointment_reschedule(apps, sl, i, new_slot) ==
    Heap([apps EXCEPT ![i].slot = new_slot],
         reserve(release(sl, apps[i].slot), new_slot))

\* ---- policies --------------------------------------------------------------

DefaultAppointmentFactory_create_noReserve(apps, sl, user, doctor, slot) ==
    Heap(Append(apps, [id |-> Len(apps) + 1, patient |-> user,
                       doctor |-> doctor, slot |-> slot, status |-> ACTIVE]),
         sl)

DefaultAppointmentFactory_create(apps, sl, user, doctor, slot) ==
    Heap(Append(apps, [id |-> Len(apps) + 1, patient |-> user,
                       doctor |-> doctor, slot |-> slot, status |-> ACTIVE]),
         reserve(sl, slot))

\* user.name of None raises AttributeError
ConsoleNotificationService_send(user, message) ==
    [sent |-> <<[user |-> user, message |-> message]>>,
     raised |-> (user = None)]

DefaultSlotValidation_alwaysTrue(sl, s) == TRUE

DefaultSlotValidation_is_available(sl, s) == sl[s]

\* ---- facade ----------------------------------------------------------------

SelectIdx(apps, Keep(_)) ==
    LET f[n \in 0 .. Len(apps)] ==
            IF n = 0 THEN <<>>
            ELSE IF Keep(apps[n]) THEN Append(f[n - 1], n) ELSE f[n - 1]
    IN f[Len(apps)]

user_appointments_anyStatus(cu, apps) ==
    IF cu = None THEN <<>>
    ELSE SelectIdx(apps, LAMBDA a : a.patient = cu)

user_appointments_anyPatient(cu, apps) ==
    IF cu = None THEN <<>>
    ELSE SelectIdx(apps, LAMBDA a : a.status = ACTIVE)

\* the positions in self.appointments of the appointments returned, in order
user_appointments(cu, apps) ==
    IF cu = None THEN <<>>
    ELSE SelectIdx(apps, LAMBDA a : a.patient = cu /\ a.status = ACTIVE)

\* first position in a scanned list whose appointment has the id, 0 if none
FirstMatch(idx, apps, appointment_id) ==
    LET hits == {k \in 1 .. Len(idx) : apps[idx[k]].id = appointment_id}
    IN IF hits = {} THEN 0
       ELSE idx[CHOOSE k \in hits : \A m \in hits : k <= m]

AllIdx(apps) == [n \in 1 .. Len(apps) |-> n]

NoCall ==
    [op |-> "", name |-> "", password |-> "", doctor |-> 0, slot |-> -1,
     id |-> 0, ret |-> FALSE, retDoctors |-> <<>>, retSlots |-> <<>>,
     retAppointments |-> <<>>, sent |-> <<>>, printed |-> <<>>,
     raised |-> FALSE]

Init ==
    /\ users = <<>>
    /\ slots = [s \in SlotIds |-> TRUE]
    /\ appointments = <<>>
    /\ current_user = None
    /\ lastCall = NoCall
    /\ NoObserver
    /\ NoCity
    /\ NoOrder

register_noDuplicateCheck(name, password) ==
    /\ users' = Append(users, User(Len(users) + 1, name, password))
    /\ lastCall' = [NoCall EXCEPT !.op = "register", !.name = name,
                                  !.password = password, !.ret = TRUE]
    /\ UNCHANGED <<slots, appointments, current_user>>

register(name, password) ==
    LET taken == \E k \in 1 .. Len(users) : users[k].name = name
    IN /\ users' = IF taken THEN users
                   ELSE Append(users, User(Len(users) + 1, name, password))
       /\ lastCall' = [NoCall EXCEPT !.op = "register", !.name = name,
                                     !.password = password, !.ret = ~taken]
       /\ UNCHANGED <<slots, appointments, current_user>>

login_nameOnly(name, password) ==
    LET hits == {k \in 1 .. Len(users) : users[k].name = name}
        ok == hits # {}
    IN /\ current_user' =
             IF ok THEN users[CHOOSE k \in hits : \A m \in hits : k <= m]
             ELSE current_user
       /\ lastCall' = [NoCall EXCEPT !.op = "login", !.name = name,
                                     !.password = password, !.ret = ok]
       /\ UNCHANGED <<users, slots, appointments>>

login_resetOnFailure(name, password) ==
    LET hits == {k \in 1 .. Len(users) :
                    users[k].name = name /\ users[k].password = password}
        ok == hits # {}
    IN /\ current_user' =
             IF ok THEN users[CHOOSE k \in hits : \A m \in hits : k <= m]
             ELSE None
       /\ lastCall' = [NoCall EXCEPT !.op = "login", !.name = name,
                                     !.password = password, !.ret = ok]
       /\ UNCHANGED <<users, slots, appointments>>

login(name, password) ==
    LET hits == {k \in 1 .. Len(users) :
                    users[k].name = name /\ users[k].password = password}
        ok == hits # {}
    IN /\ current_user' =
             IF ok THEN users[CHOOSE k \in hits : \A m \in hits : k <= m]
             ELSE current_user
       /\ lastCall' = [NoCall EXCEPT !.op = "login", !.name = name,
                                     !.password = password, !.ret = ok]
       /\ UNCHANGED <<users, slots, appointments>>

list_doctors ==
    /\ lastCall' = [NoCall EXCEPT !.op = "list_doctors",
                                  !.retDoctors = [d \in DoctorIds |-> d]]
    /\ UNCHANGED <<users, slots, appointments, current_user>>


available_slots_notifyWhenNonEmpty ==
    LET sl == SelectIdx([n \in 1 .. NumSlots |-> n - 1],
                        LAMBDA s : DefaultSlotValidation_is_available(slots, s))
        result == [k \in 1 .. Len(sl) |-> sl[k] - 1]
        note == IF result # <<>> /\ current_user # None
                THEN ConsoleNotificationService_send(current_user, MsgNoSlots)
                ELSE [sent |-> <<>>, raised |-> FALSE]
    IN /\ lastCall' = [NoCall EXCEPT !.op = "available_slots",
                                     !.retSlots = result,
                                     !.sent = note.sent,
                                     !.raised = note.raised]
       /\ UNCHANGED <<users, slots, appointments, current_user>>

available_slots ==
    LET sl == SelectIdx([n \in 1 .. NumSlots |-> n - 1],
                        LAMBDA s : DefaultSlotValidation_is_available(slots, s))
        result == [k \in 1 .. Len(sl) |-> sl[k] - 1]
        note == IF result = <<>> /\ current_user # None
                THEN ConsoleNotificationService_send(current_user, MsgNoSlots)
                ELSE [sent |-> <<>>, raised |-> FALSE]
    IN /\ lastCall' = [NoCall EXCEPT !.op = "available_slots",
                                     !.retSlots = result,
                                     !.sent = note.sent,
                                     !.raised = note.raised]
       /\ UNCHANGED <<users, slots, appointments, current_user>>

create_appointment_noLoginCheck(doctor, slot) ==
    LET call == [NoCall EXCEPT !.op = "create_appointment",
                               !.doctor = doctor, !.slot = slot]
    IN IF ~DefaultSlotValidation_is_available(slots, slot)
       THEN LET note == ConsoleNotificationService_send(current_user, MsgSlotTaken)
            IN /\ lastCall' = [call EXCEPT !.sent = note.sent,
                                           !.raised = note.raised]
               /\ UNCHANGED <<users, slots, appointments, current_user>>
       ELSE LET h == DefaultAppointmentFactory_create(
                         appointments, slots, current_user, doctor, slot)
                note == ConsoleNotificationService_send(current_user, MsgCreated)
            IN /\ appointments' = h.appointments
               /\ slots' = h.slots
               /\ lastCall' = [call EXCEPT !.sent = note.sent,
                                           !.raised = note.raised]
               /\ UNCHANGED <<users, current_user>>

create_appointment_noReturnOnTaken(doctor, slot) ==
    LET call == [NoCall EXCEPT !.op = "create_appointment",
                               !.doctor = doctor, !.slot = slot]
    IN IF current_user = None
       THEN /\ lastCall' = [call EXCEPT !.printed = <<MsgLoginFirst>>]
            /\ UNCHANGED <<users, slots, appointments, current_user>>
       ELSE LET taken == IF ~DefaultSlotValidation_is_available(slots, slot)
                         THEN ConsoleNotificationService_send(current_user, MsgSlotTaken)
                         ELSE [sent |-> <<>>, raised |-> FALSE]
                h == DefaultAppointmentFactory_create(
                         appointments, slots, current_user, doctor, slot)
                note == ConsoleNotificationService_send(current_user, MsgCreated)
            IN /\ appointments' = h.appointments
               /\ slots' = h.slots
               /\ lastCall' = [call EXCEPT !.sent = taken.sent \o note.sent,
                                           !.raised = taken.raised \/ note.raised]
               /\ UNCHANGED <<users, current_user>>

create_appointment(doctor, slot) ==
    LET call == [NoCall EXCEPT !.op = "create_appointment",
                               !.doctor = doctor, !.slot = slot]
    IN IF current_user = None
       THEN /\ lastCall' = [call EXCEPT !.printed = <<MsgLoginFirst>>]
            /\ UNCHANGED <<users, slots, appointments, current_user>>
       ELSE IF ~DefaultSlotValidation_is_available(slots, slot)
       THEN LET note == ConsoleNotificationService_send(current_user, MsgSlotTaken)
            IN /\ lastCall' = [call EXCEPT !.sent = note.sent,
                                           !.raised = note.raised]
               /\ UNCHANGED <<users, slots, appointments, current_user>>
       ELSE LET h == DefaultAppointmentFactory_create(
                         appointments, slots, current_user, doctor, slot)
                note == ConsoleNotificationService_send(current_user, MsgCreated)
            IN /\ appointments' = h.appointments
               /\ slots' = h.slots
               /\ lastCall' = [call EXCEPT !.sent = note.sent,
                                           !.raised = note.raised]
               /\ UNCHANGED <<users, current_user>>

cancel_appointment_scanAll(appointment_id) ==
    LET call == [NoCall EXCEPT !.op = "cancel_appointment",
                               !.id = appointment_id]
        i == FirstMatch(AllIdx(appointments), appointments, appointment_id)
    IN IF i = 0
       THEN /\ lastCall' = call
            /\ UNCHANGED <<users, slots, appointments, current_user>>
       ELSE LET h == Appointment_cancel(appointments, slots, i)
                note == ConsoleNotificationService_send(current_user, MsgCanceled)
            IN /\ appointments' = h.appointments
               /\ slots' = h.slots
               /\ lastCall' = [call EXCEPT !.sent = note.sent,
                                           !.raised = note.raised]
               /\ UNCHANGED <<users, current_user>>

cancel_appointment(appointment_id) ==
    LET call == [NoCall EXCEPT !.op = "cancel_appointment",
                               !.id = appointment_id]
        i == FirstMatch(user_appointments(current_user, appointments),
                        appointments, appointment_id)
    IN IF i = 0
       THEN /\ lastCall' = call
            /\ UNCHANGED <<users, slots, appointments, current_user>>
       ELSE LET h == Appointment_cancel(appointments, slots, i)
                note == ConsoleNotificationService_send(current_user, MsgCanceled)
            IN /\ appointments' = h.appointments
               /\ slots' = h.slots
               /\ lastCall' = [call EXCEPT !.sent = note.sent,
                                           !.raised = note.raised]
               /\ UNCHANGED <<users, current_user>>

reschedule_appointment_noValidation(appointment_id, new_slot) ==
    LET call == [NoCall EXCEPT !.op = "reschedule_appointment",
                               !.id = appointment_id, !.slot = new_slot]
        i == FirstMatch(user_appointments(current_user, appointments),
                        appointments, appointment_id)
    IN IF i = 0
       THEN /\ lastCall' = call
            /\ UNCHANGED <<users, slots, appointments, current_user>>
       ELSE LET h == Appointment_reschedule(appointments, slots, i, new_slot)
                note == ConsoleNotificationService_send(current_user, MsgRescheduled)
            IN /\ appointments' = h.appointments
               /\ slots' = h.slots
               /\ lastCall' = [call EXCEPT !.sent = note.sent,
                                           !.raised = note.raised]
               /\ UNCHANGED <<users, current_user>>

reschedule_appointment(appointment_id, new_slot) ==
    LET call == [NoCall EXCEPT !.op = "reschedule_appointment",
                               !.id = appointment_id, !.slot = new_slot]
        i == FirstMatch(user_appointments(current_user, appointments),
                        appointments, appointment_id)
    IN IF ~DefaultSlotValidation_is_available(slots, new_slot)
       THEN LET note == ConsoleNotificationService_send(current_user, MsgSlotTaken)
            IN /\ lastCall' = [call EXCEPT !.sent = note.sent,
                                           !.raised = note.raised]
               /\ UNCHANGED <<users, slots, appointments, current_user>>
       ELSE IF i = 0
       THEN /\ lastCall' = call
            /\ UNCHANGED <<users, slots, appointments, current_user>>
       ELSE LET h == Appointment_reschedule(appointments, slots, i, new_slot)
                note == ConsoleNotificationService_send(current_user, MsgRescheduled)
            IN /\ appointments' = h.appointments
               /\ slots' = h.slots
               /\ lastCall' = [call EXCEPT !.sent = note.sent,
                                           !.raised = note.raised]
               /\ UNCHANGED <<users, current_user>>

show_appointments ==
    LET idx == user_appointments(current_user, appointments)
    IN /\ lastCall' = [NoCall EXCEPT !.op = "user_appointments",
                           !.retAppointments =
                               [k \in 1 .. Len(idx) |-> appointments[idx[k]]]]
       /\ UNCHANGED <<users, slots, appointments, current_user>>

\* a call of create_appointment that is rejected, or that leaves at most cap
\* appointments in the collection
Within(cap, slot) ==
    \/ current_user = None
    \/ ~DefaultSlotValidation_is_available(slots, slot)
    \/ Len(appointments) < cap

Next ==
    \/ /\ \E n \in Names, p \in RegisterPasswords : register(n, p)
       /\ UNCHANGED <<observerVars, cityVars, orderVars>>
    \/ /\ \E n \in Names, p \in Passwords : login(n, p)
       /\ UNCHANGED <<observerVars, cityVars, orderVars>>
    \/ /\ list_doctors
       /\ UNCHANGED <<observerVars, cityVars, orderVars>>
    \/ /\ available_slots
       /\ UNCHANGED <<observerVars, cityVars, orderVars>>
    \/ /\ \E d \in DoctorArgs, s \in SlotArgs :
             Within(MaxAppointments, s) /\ create_appointment(d, s)
       /\ UNCHANGED <<observerVars, cityVars, orderVars>>
    \/ /\ \E a \in AppointmentIds : cancel_appointment(a)
       /\ UNCHANGED <<observerVars, cityVars, orderVars>>
    \/ /\ \E a \in AppointmentIds, s \in SlotArgs : reschedule_appointment(a, s)
       /\ UNCHANGED <<observerVars, cityVars, orderVars>>
    \/ /\ show_appointments
       /\ UNCHANGED <<observerVars, cityVars, orderVars>>

Spec == Init /\ [][Next]_vars

\* registration and login alone, with every password
NextAuth ==
    \/ /\ \E n \in Names, p \in Passwords : register(n, p)
       /\ UNCHANGED <<observerVars, cityVars, orderVars>>
    \/ /\ \E n \in Names, p \in Passwords : login(n, p)
       /\ UNCHANGED <<observerVars, cityVars, orderVars>>

SpecAuth == Init /\ [][NextAuth]_vars

\* one patient books any of the seeded slots, up to all of them
NextBooked ==
    \/ /\ register("alice", "pw1")
       /\ UNCHANGED <<observerVars, cityVars, orderVars>>
    \/ /\ login("alice", "pw1")
       /\ UNCHANGED <<observerVars, cityVars, orderVars>>
    \/ /\ available_slots
       /\ UNCHANGED <<observerVars, cityVars, orderVars>>
    \/ /\ \E d \in DoctorArgs, s \in SlotIds :
             Within(NumSlots, s) /\ create_appointment(d, s)
       /\ UNCHANGED <<observerVars, cityVars, orderVars>>

SpecBooked == Init /\ [][NextBooked]_vars

\* ---- modul2.py: publishers and students ----------------------------------

\* the most tasks an inbox holds before publishing stops being explored
MaxInbox == 2

Publishers == {"Math", "Physics"}
Students == {"Alice", "Bob"}
Titles == {"hw1"}
Descriptions == {"series"}
DueDates == {"2025-12-20"}

NoFacade ==
    /\ users = <<>>
    /\ slots = <<>>
    /\ appointments = <<>>
    /\ current_user = None
    /\ lastCall = NoCall

Task(title, description, subject, due_date) ==
    [title |-> title, description |-> description, subject |-> subject,
     due_date |-> due_date]

NoTask == Task("", "", "", "")

Contains(seq, x) == \E k \in DOMAIN seq : seq[k] = x

SubjectPublisher_attach_noCheck(obs, observer) == Append(obs, observer)

SubjectPublisher_attach(obs, observer) ==
    IF ~Contains(obs, observer) THEN Append(obs, observer) ELSE obs

\* list.remove: the first occurrence goes
SubjectPublisher_detach(obs, observer) ==
    IF Contains(obs, observer)
    THEN LET k == CHOOSE k \in DOMAIN obs :
                      /\ obs[k] = observer
                      /\ \A m \in DOMAIN obs : obs[m] = observer => k <= m
         IN SubSeq(obs, 1, k - 1) \o SubSeq(obs, k + 1, Len(obs))
    ELSE obs

Student_update(inb, student, task) ==
    [inb EXCEPT ![student] = Append(@, task)]

\* for obs in list(self._observers): obs.update(task)
SubjectPublisher_notify(obs, inb, task) ==
    LET f[n \in 0 .. Len(obs)] ==
            IF n = 0 THEN inb ELSE Student_update(f[n - 1], obs[n], task)
    IN f[Len(obs)]

ObsCall(op, publisher, student, task) ==
    [op |-> op, publisher |-> publisher, student |-> student, task |-> task]

InitObserver ==
    /\ observers = [p \in Publishers |-> <<>>]
    /\ inbox = [s \in Students |-> <<>>]
    /\ obsCall = ObsCall("", "", "", NoTask)
    /\ NoFacade
    /\ NoCity
    /\ NoOrder

subscribe_to(student, publisher) ==
    /\ observers' = [observers EXCEPT
                        ![publisher] = SubjectPublisher_attach(@, student)]
    /\ obsCall' = ObsCall("subscribe_to", publisher, student, NoTask)
    /\ UNCHANGED inbox

unsubscribe_from(student, publisher) ==
    /\ observers' = [observers EXCEPT
                        ![publisher] = SubjectPublisher_detach(@, student)]
    /\ obsCall' = ObsCall("unsubscribe_from", publisher, student, NoTask)
    /\ UNCHANGED inbox

publish_task(publisher, title, description, due) ==
    LET task == Task(title, description, publisher, due)
    IN /\ inbox' = SubjectPublisher_notify(observers[publisher], inbox, task)
       /\ obsCall' = ObsCall("publish_task", publisher, "", task)
       /\ UNCHANGED observers

\* publishing is explored while every inbox it reaches has room
HasRoom(publisher) ==
    \A k \in DOMAIN observers[publisher] :
        Len(inbox[observers[publisher][k]]) < MaxInbox

NextObserver ==
    \/ /\ \E s \in Students, p \in Publishers : subscribe_to(s, p)
       /\ UNCHANGED <<facadeVars, cityVars, orderVars>>
    \/ /\ \E s \in Students, p \in Publishers : unsubscribe_from(s, p)
       /\ UNCHANGED <<facadeVars, cityVars, orderVars>>
    \/ /\ \E p \in Publishers, t \in Titles, d \in Descriptions, due \in DueDates :
             HasRoom(p) /\ publish_task(p, t, d, due)
       /\ UNCHANGED <<facadeVars, cityVars, orderVars>>

SpecObserver == InitObserver /\ [][NextObserver]_vars

\* ---- LR4.py: traversals of the city ----------------------------------------

\* the largest matrix explored
MaxRows == 3
MaxCols == 3

\* the most empty houses of a matrix that is not all empty
MaxEmpty == 2

Cells(rows, cols) == (0 .. (rows - 1)) \X (0 .. (cols - 1))

\* the residents of the matrices explored: at most MaxEmpty empty houses, or
\* every house empty
EmptyChoices(rows, cols) ==
    {e \in SUBSET Cells(rows, cols) : Cardinality(e) <= MaxEmpty}
        \cup {Cells(rows, cols)}

House_is_empty(c, cell) == cell \in c.empty

\* matrix[i][j] of a list of lists: a negative index counts from the end, an
\* index outside -n .. n-1 raises IndexError
InRange(i, n) == i >= -n /\ i < n

At(i, n) == IF i < 0 THEN i + n ELSE i

Frame(pc, top, bottom, left, right, row, col) ==
    [pc |-> pc, top |-> top, bottom |-> bottom, left |-> left,
     right |-> right, row |-> row, col |-> col]

RowByRowTraversal_start == Frame("rows", 0, 0, 0, 0, 0, 0)

SpiralTraversal_start(c) == Frame("while", 0, c.rows - 1, 0, c.cols - 1, 0, 0)

\* the generator yields matrix[i][j] to the loop of print_empty_houses, which
\* prints the address of an empty house, and moves to frame g
Yield(i, j, g) ==
    IF InRange(i, city.rows) /\ InRange(j, city.cols)
    THEN LET cell == <<At(i, city.rows), At(j, city.cols)>>
         IN /\ yielded' = [yielded EXCEPT ![city.strategy] = Append(@, cell)]
            /\ printed' = [printed EXCEPT ![city.strategy] =
                              IF House_is_empty(city, cell)
                              THEN Append(@, cell) ELSE @]
            /\ gen' = g
    ELSE /\ gen' = [gen EXCEPT !.pc = "IndexError"]
         /\ UNCHANGED <<yielded, printed>>

Jump(g) ==
    /\ gen' = g
    /\ UNCHANGED <<yielded, printed>>

InitCity ==
    /\ \E rows \in 1 .. MaxRows, cols \in 1 .. MaxCols :
          \E e \in EmptyChoices(rows, cols) :
              city = [rows |-> rows, cols |-> cols, empty |-> e,
                      strategy |-> "rows"]
    /\ gen = RowByRowTraversal_start
    /\ yielded = [s \in {"rows", "spiral"} |-> <<>>]
    /\ printed = [s \in {"rows", "spiral"} |-> <<>>]
    /\ NoFacade
    /\ NoObserver
    /\ NoOrder

RowByRowTraversal_traverse ==
    /\ gen.pc = "rows"
    /\ IF gen.row >= city.rows
       THEN Jump([gen EXCEPT !.pc = "done"])
       ELSE IF gen.col >= city.cols
       THEN Jump([gen EXCEPT !.row = @ + 1, !.col = 0])
       ELSE Yield(gen.row, gen.col, [gen EXCEPT !.col = @ + 1])
    /\ UNCHANGED city

set_strategy ==
    /\ gen.pc = "done"
    /\ city.strategy = "rows"
    /\ city' = [city EXCEPT !.strategy = "spiral"]
    /\ gen' = SpiralTraversal_start(city)
    /\ UNCHANGED <<yielded, printed>>

\* while left <= right and top <= bottom
SpiralWhile ==
    /\ gen.pc = "while"
    /\ IF gen.left <= gen.right /\ gen.top <= gen.bottom
       THEN Jump([gen EXCEPT !.pc = "for1", !.col = gen.left])
       ELSE Jump([gen EXCEPT !.pc = "done"])
    /\ UNCHANGED city

\* for col in range(left, right + 1): yield matrix[top][col]; top += 1
SpiralFor1 ==
    /\ gen.pc = "for1"
    /\ IF gen.col < gen.right + 1
       THEN Yield(gen.top, gen.col, [gen EXCEPT !.col = @ + 1])
       ELSE Jump([gen EXCEPT !.pc = "for2", !.top = @ + 1, !.row = gen.top + 1])
    /\ UNCHANGED city

\* after right -= 1: if top <= bottom, the loop over the bottom row
AfterFor2_noCheck(g) ==
    [g EXCEPT !.pc = "for3", !.right = @ - 1, !.col = g.right - 1]

AfterFor2(g) ==
    IF g.top <= g.bottom
    THEN [g EXCEPT !.pc = "for3", !.right = @ - 1, !.col = g.right - 1]
    ELSE [g EXCEPT !.pc = "if4", !.right = @ - 1]

\* for row in range(top, bottom + 1): yield matrix[row][right]; right -= 1
SpiralFor2 ==
    /\ gen.pc = "for2"
    /\ IF gen.row < gen.bottom + 1
       THEN Yield(gen.row, gen.right, [gen EXCEPT !.row = @ + 1])
       ELSE Jump(AfterFor2(gen))
    /\ UNCHANGED city

\* for col in range(right, left - 1, -1): yield matrix[bottom][col]; bottom -= 1
SpiralFor3 ==
    /\ gen.pc = "for3"
    /\ IF gen.col > gen.left - 1
       THEN Yield(gen.bottom, gen.col, [gen EXCEPT !.col = @ - 1])
       ELSE Jump([gen EXCEPT !.pc = "if4", !.bottom = @ - 1])
    /\ UNCHANGED city

\* if left <= right, the loop over the left column
SpiralIf4 ==
    /\ gen.pc = "if4"
    /\ IF gen.left <= gen.right
       THEN Jump([gen EXCEPT !.pc = "for4", !.row = gen.bottom])
       ELSE Jump([gen EXCEPT !.pc = "while"])
    /\ UNCHANGED city

\* for row in range(bottom, top - 1, -1): yield matrix[row][left]; left += 1
SpiralFor4 ==
    /\ gen.pc = "for4"
    /\ IF gen.row > gen.top - 1
       THEN Yield(gen.row, gen.left, [gen EXCEPT !.row = @ - 1])
       ELSE Jump([gen EXCEPT !.pc = "while", !.left = @ + 1])
    /\ UNCHANGED city

NextCity ==
    \/ /\ RowByRowTraversal_traverse
       /\ UNCHANGED <<facadeVars, observerVars, orderVars>>
    \/ /\ set_strategy
       /\ UNCHANGED <<facadeVars, observerVars, orderVars>>
    \/ /\ SpiralWhile
       /\ UNCHANGED <<facadeVars, observerVars, orderVars>>
    \/ /\ SpiralFor1
       /\ UNCHANGED <<facadeVars, observerVars, orderVars>>
    \/ /\ SpiralFor2
       /\ UNCHANGED <<facadeVars, observerVars, orderVars>>
    \/ /\ SpiralFor3
       /\ UNCHANGED <<facadeVars, observerVars, orderVars>>
    \/ /\ SpiralIf4
       /\ UNCHANGED <<facadeVars, observerVars, orderVars>>
    \/ /\ SpiralFor4
       /\ UNCHANGED <<facadeVars, observerVars, orderVars>>

\* the for loop of print_empty_houses runs a generator to its end
SpecCity == InitCity /\ [][NextCity]_vars /\ WF_vars(NextCity)

\* ---- modul.py: the price of an order -------------------------------------
\* Prices are whole multiples of 1000, for which every percentage below is a
\* whole number and the float arithmetic of the code is exact.

\* the most products added to a builder
MaxProducts == 3

\* set_tax_params(X=5, N=2, Y=20, Z=10, A=20000)
TaxX == 5
TaxN == 2
TaxY == 20
TaxZ == 10
TaxA == 20000

ProductNames == {"item"}
Quantities == {1, 2}
Prices == {5000, 19000}
\* what the user types for the payment method
MethodInputs == {"Transfer", "transfer", "card"}
\* the method the code compares with
TransferMethod == "transfer"

\* str.lower
Lower(method) == IF method = "Transfer" THEN "transfer" ELSE method

Product(name, quantity, price) ==
    [name |-> name, quantity |-> quantity, price |-> price]

Product_total(p) == p.quantity * p.price

BaseOrder_get_price(products) ==
    LET f[n \in 0 .. Len(products)] ==
            IF n = 0 THEN 0 ELSE f[n - 1] + Product_total(products[n])
    IN f[Len(products)]

Priced(price, applied) == [price |-> price, applied |-> applied]

ItemCountTax_get_price(price, X, N, count) ==
    IF count > N THEN Priced(price + (price * X) \div 100, TRUE)
    ELSE Priced(price, FALSE)

TransferTax_get_price(price, Y, is_transfer) ==
    IF is_transfer THEN Priced(price + (price * Y) \div 100, TRUE)
    ELSE Priced(price, FALSE)

TotalSumTax_get_price(price, Z, A) ==
    IF price > A THEN Priced(price + (price * Z) \div 100, TRUE)
    ELSE Priced(price, FALSE)

NoBuilt ==
    [built |-> FALSE, X |-> 0, N |-> 0, count |-> 0, Y |-> 0,
     is_transfer |-> FALSE, Z |-> 0, A |-> 0]

OrderCall(op, x, y, z, price) ==
    [op |-> op, item |-> x, transfer |-> y, total |-> z, price |-> price]

InitOrder ==
    /\ builder = [products |-> <<>>, method |-> "", X |-> 0, N |-> 0,
                  Y |-> 0, Z |-> 0, A |-> 0]
    /\ order = NoBuilt
    /\ orderCall = OrderCall("", FALSE, FALSE, FALSE, 0)
    /\ NoFacade
    /\ NoObserver
    /\ NoCity

add_product(name, quantity, price) ==
    /\ Len(builder.products) < MaxProducts
    /\ builder' = [builder EXCEPT
                      !.products = Append(@, Product(name, quantity, price))]
    /\ orderCall' = OrderCall("add_product", FALSE, FALSE, FALSE, 0)
    /\ UNCHANGED order

set_payment_method(method) ==
    /\ builder' = [builder EXCEPT !.method = Lower(method)]
    /\ orderCall' = OrderCall("set_payment_method", FALSE, FALSE, FALSE, 0)
    /\ UNCHANGED order

set_tax_params(X, N, Y, Z, A) ==
    /\ builder' = [builder EXCEPT !.X = X, !.N = N, !.Y = Y, !.Z = Z, !.A = A]
    /\ orderCall' = OrderCall("set_tax_params", FALSE, FALSE, FALSE, 0)
    /\ UNCHANGED order

\* the decorators keep the values passed to them; BaseOrder keeps the
\* builder's list itself
build ==
    /\ order' = [built |-> TRUE, X |-> builder.X, N |-> builder.N,
                 count |-> Len(builder.products), Y |-> builder.Y,
                 is_transfer |-> (builder.method = TransferMethod),
                 Z |-> builder.Z, A |-> builder.A]
    /\ orderCall' = OrderCall("build", FALSE, FALSE, FALSE, 0)
    /\ UNCHANGED builder

\* order.get_price(): TotalSumTax over TransferTax over ItemCountTax over
\* BaseOrder
get_price ==
    /\ order.built
    /\ LET base == BaseOrder_get_price(builder.products)
           item == ItemCountTax_get_price(base, order.X, order.N, order.count)
           transfer == TransferTax_get_price(item.price, order.Y,
                                             order.is_transfer)
           total == TotalSumTax_get_price(transfer.price, order.Z, order.A)
       IN orderCall' = OrderCall("get_price", item.applied, transfer.applied,
                                 total.applied, total.price)
    /\ UNCHANGED <<builder, order>>

NextOrder ==
    \/ /\ \E n \in ProductNames, q \in Quantities, p \in Prices :
             add_product(n, q, p)
       /\ UNCHANGED <<facadeVars, observerVars, cityVars>>
    \/ /\ \E m \in MethodInputs : set_payment_method(m)
       /\ UNCHANGED <<facadeVars, observerVars, cityVars>>
    \/ /\ set_tax_params(TaxX, TaxN, TaxY, TaxZ, TaxA)
       /\ UNCHANGED <<facadeVars, observerVars, cityVars>>
    \/ /\ build
       /\ UNCHANGED <<facadeVars, observerVars, cityVars>>
    \/ /\ get_price
       /\ UNCHANGED <<facadeVars, observerVars, cityVars>>

SpecOrder == InitOrder /\ [][NextOrder]_vars

\* ---- properties -------------------------------------------------------------

\* appointment i is one of the current user's Active appointments with this id
Matches(i, appointment_id) ==
    /\ current_user # None
    /\ appointments[i].id = appointment_id
    /\ appointments[i].patient = current_user
    /\ appointments[i].status = ACTIVE

Note(user, message) == <<[user |-> user, message |-> message]>>

\* C1: a slot is unavailable if and only if some Active appointment of the
\* appointment collection references it.
C1_SlotReservedIffActive ==
    \A s \in SlotIds :
        (~slots[s]) <=> (\E i \in DOMAIN appointments :
                            /\ appointments[i].status = ACTIVE
                            /\ appointments[i].slot = s)

\* a reschedule has succeeded while another appointment is Canceled
C1_Witness ==
    /\ lastCall.op = "reschedule_appointment"
    /\ lastCall.sent = Note(current_user, MsgRescheduled)
    /\ \E i \in DOMAIN appointments : appointments[i].status = CANCELED
    /\ \E s \in SlotIds : ~slots[s]

\* C2: no two distinct Active appointments reference the same slot.
C2_NoDoubleBooking ==
    \A i, j \in DOMAIN appointments :
        (/\ i # j
         /\ appointments[i].status = ACTIVE
         /\ appointments[j].status = ACTIVE)
        => appointments[i].slot # appointments[j].slot

\* two users hold an Active appointment each, and the second one was refused
\* the slot of the first
C2_Witness ==
    /\ \E i, j \in DOMAIN appointments :
          /\ appointments[i].status = ACTIVE
          /\ appointments[j].status = ACTIVE
          /\ appointments[i].patient # appointments[j].patient
    /\ lastCall.op = "create_appointment"
    /\ lastCall.sent = Note(current_user, MsgSlotTaken)

\* C3: a successful reschedule_appointment(id, new_slot) leaves the previous
\* slot available, new_slot unavailable and the appointment on new_slot, all
\* in the one step of the operation.
C3_RescheduleAtomic ==
    [][\A i \in DOMAIN appointments :
          (/\ lastCall'.op = "reschedule_appointment"
           /\ slots[lastCall'.slot]
           /\ Matches(i, lastCall'.id))
          => (/\ slots'[appointments[i].slot]
              /\ ~slots'[lastCall'.slot]
              /\ appointments'[i].slot = lastCall'.slot)]_vars

C3_Witness ==
    /\ lastCall.op = "reschedule_appointment"
    /\ lastCall.sent = Note(current_user, MsgRescheduled)
    /\ \E i \in DOMAIN appointments :
          /\ appointments[i].id = lastCall.id
          /\ appointments[i].slot = lastCall.slot
          /\ appointments[i].status = ACTIVE
    /\ ~slots[lastCall.slot]
    /\ \E s \in SlotArgs : s # lastCall.slot /\ slots[s]

\* C4: a Canceled appointment keeps status Canceled and its slot reference in
\* every later step, and no later user_appointments() returns it.
C4_CanceledIsTerminal ==
    [][\A i \in DOMAIN appointments :
          appointments[i].status = CANCELED
          => (/\ i \in DOMAIN appointments'
              /\ appointments'[i].status = CANCELED
              /\ appointments'[i].slot = appointments[i].slot
              /\ (lastCall'.op = "user_appointments"
                  => \A k \in DOMAIN lastCall'.retAppointments :
                        lastCall'.retAppointments[k].id # appointments[i].id))]_vars

\* the patient of a Canceled appointment lists their appointments after the
\* slot of the Canceled appointment was booked again
C4_Witness ==
    /\ lastCall.op = "user_appointments"
    /\ \E i, j \in DOMAIN appointments :
          /\ appointments[i].status = CANCELED
          /\ appointments[i].patient = current_user
          /\ appointments[j].status = ACTIVE
          /\ appointments[j].slot = appointments[i].slot

\* C5: cancel_appointment(id) for an appointment that is already Canceled
\* changes no appointment and no slot and sends no notification.
C5_SecondCancelIsNoOp ==
    [][(/\ lastCall'.op = "cancel_appointment"
        /\ \E i \in DOMAIN appointments :
              /\ appointments[i].id = lastCall'.id
              /\ appointments[i].status = CANCELED)
       => (/\ appointments' = appointments
           /\ slots' = slots
           /\ lastCall'.sent = <<>>)]_vars

\* the patient cancels a Canceled appointment again after its slot was booked
\* by a new Active appointment: the slot is still unavailable
C5_Witness ==
    /\ lastCall.op = "cancel_appointment"
    /\ lastCall.sent = <<>>
    /\ \E i, j \in DOMAIN appointments :
          /\ appointments[i].id = lastCall.id
          /\ appointments[i].status = CANCELED
          /\ appointments[i].patient = current_user
          /\ appointments[j].status = ACTIVE
          /\ appointments[j].slot = appointments[i].slot
          /\ ~slots[appointments[i].slot]

\* C6: no facade operation raises, and the notification service is only
\* invoked with a registered user.
C6_NoFatalError ==
    /\ ~lastCall.raised
    /\ \A k \in DOMAIN lastCall.sent :
          \E u \in DOMAIN users : users[u] = lastCall.sent[k].user

\* reschedule_appointment and cancel_appointment called with nobody logged in
\* while users are registered
C6_Witness ==
    /\ lastCall.op \in {"reschedule_appointment", "cancel_appointment"}
    /\ current_user = None
    /\ users # <<>>

\* C7: a create_appointment that is rejected (nobody logged in, or the slot
\* fails validation) changes no appointment and no slot; "slot taken" is sent
\* to the current user exactly when validation fails, and nothing is sent
\* when nobody is logged in.
C7_RejectedCreateChangesNothing ==
    [][lastCall'.op = "create_appointment"
       => (/\ current_user = None
              => (/\ appointments' = appointments
                  /\ slots' = slots
                  /\ lastCall'.sent = <<>>)
           /\ (current_user # None /\ ~slots[lastCall'.slot])
              => (/\ appointments' = appointments
                  /\ slots' = slots
                  /\ lastCall'.sent = Note(current_user, MsgSlotTaken))
           /\ (\E k \in DOMAIN lastCall'.sent :
                  lastCall'.sent[k].message = MsgSlotTaken)
              => (current_user # None /\ ~slots[lastCall'.slot]))]_vars

\* the same user asked for the slot of their only appointment a second time
C7_Witness ==
    /\ lastCall.op = "create_appointment"
    /\ lastCall.sent = Note(current_user, MsgSlotTaken)
    /\ Len(appointments) = 1
    /\ appointments[1].patient = current_user
    /\ appointments[1].slot = lastCall.slot
    /\ appointments[1].status = ACTIVE

\* C8: a successful create_appointment appends exactly one appointment, of the
\* current user, with the doctor and slot given, Active and with an identity
\* no earlier appointment has; the slot is then unavailable and one success
\* notification went to the current user.
C8_CreateAppendsFreshActive ==
    [][(/\ lastCall'.op = "create_appointment"
        /\ current_user # None
        /\ slots[lastCall'.slot])
       => (/\ Len(appointments') = Len(appointments) + 1
           /\ SubSeq(appointments', 1, Len(appointments)) = appointments
           /\ LET a == appointments'[Len(appointments')]
              IN /\ a.patient = current_user
                 /\ a.doctor = lastCall'.doctor
                 /\ a.slot = lastCall'.slot
                 /\ a.status = ACTIVE
                 /\ \A i \in DOMAIN appointments : appointments[i].id # a.id
           /\ ~slots'[lastCall'.slot]
           /\ \A s \in SlotIds : s # lastCall'.slot => slots'[s] = slots[s]
           /\ lastCall'.sent = Note(current_user, MsgCreated))]_vars

\* a second appointment was created
C8_Witness ==
    /\ lastCall.op = "create_appointment"
    /\ lastCall.sent = Note(current_user, MsgCreated)
    /\ Len(appointments) = 2
    /\ appointments[2].slot = lastCall.slot
    /\ appointments[1].id # appointments[2].id

\* C9: reschedule_appointment by a logged-in user onto a slot that fails
\* validation sends that user "slot taken" and changes no appointment and no
\* slot.
C9_RescheduleOntoTakenSlotAborts ==
    [][(/\ lastCall'.op = "reschedule_appointment"
        /\ current_user # None
        /\ ~slots[lastCall'.slot])
       => (/\ lastCall'.sent = Note(current_user, MsgSlotTaken)
           /\ appointments' = appointments
           /\ slots' = slots)]_vars

\* the user asked to move an appointment onto the slot it already has
C9_Witness ==
    /\ lastCall.op = "reschedule_appointment"
    /\ lastCall.sent = Note(current_user, MsgSlotTaken)
    /\ \E i \in DOMAIN appointments :
          /\ Matches(i, lastCall.id)
          /\ appointments[i].slot = lastCall.slot

\* C10: cancel_appointment(id), and reschedule_appointment(id, s) with s
\* available, whose id matches none of the current user's Active appointments
\* change no appointment and no slot and send no notification.
C10_NoMatchIsSilentNoOp ==
    [][(/\ \/ lastCall'.op = "cancel_appointment"
           \/ (lastCall'.op = "reschedule_appointment" /\ slots[lastCall'.slot])
        /\ ~\E i \in DOMAIN appointments : Matches(i, lastCall'.id))
       => (/\ appointments' = appointments
           /\ slots' = slots
           /\ lastCall'.sent = <<>>
           /\ ~lastCall'.raised)]_vars

\* a logged-in user asked to move another user's Active appointment onto a
\* free slot
C10_Witness ==
    /\ lastCall.op = "reschedule_appointment"
    /\ slots[lastCall.slot]
    /\ current_user # None
    /\ lastCall.sent = <<>>
    /\ \E i \in DOMAIN appointments :
          /\ appointments[i].id = lastCall.id
          /\ appointments[i].status = ACTIVE
          /\ appointments[i].patient # current_user

\* C11: user_appointments() returns exactly the appointments of the collection
\* whose patient is the current user and whose status is Active, in collection
\* order, nothing when nobody is logged in, and changes no state.
C11_UserAppointmentsExact ==
    [][lastCall'.op = "user_appointments"
       => LET r == lastCall'.retAppointments
              mine == {i \in DOMAIN appointments :
                          /\ current_user # None
                          /\ appointments[i].patient = current_user
                          /\ appointments[i].status = ACTIVE}
          IN /\ Len(r) = Cardinality(mine)
             /\ \A i \in mine : \E k \in DOMAIN r : r[k] = appointments[i]
             /\ \A k \in DOMAIN r : \E i \in mine : r[k] = appointments[i]
             /\ \A k, l \in DOMAIN r :
                   k < l => \E i, j \in mine : /\ i < j
                                               /\ r[k] = appointments[i]
                                               /\ r[l] = appointments[j]
             /\ (current_user = None => r = <<>>)
             /\ UNCHANGED <<users, slots, appointments, current_user>>]_vars

\* the current user's one Active appointment is returned while another user
\* holds an Active appointment too
C11_Witness ==
    /\ lastCall.op = "user_appointments"
    /\ Len(lastCall.retAppointments) = 1
    /\ lastCall.retAppointments[1].patient = current_user
    /\ \E i \in DOMAIN appointments :
          /\ appointments[i].status = ACTIVE
          /\ appointments[i].patient # current_user

\* C12: available_slots() returns exactly the slots that pass validation,
\* changes no slot and no appointment, and sends "no slots" if and only if the
\* result is empty and a user is logged in.
C12_AvailableSlotsExact ==
    [][lastCall'.op = "available_slots"
       => LET r == lastCall'.retSlots
          IN /\ \A s \in SlotIds : slots[s] <=> (\E k \in DOMAIN r : r[k] = s)
             /\ Len(r) = Cardinality({s \in SlotIds : slots[s]})
             /\ UNCHANGED <<users, slots, appointments, current_user>>
             /\ lastCall'.sent = IF r = <<>> /\ current_user # None
                                 THEN Note(current_user, MsgNoSlots)
                                 ELSE <<>>]_vars

\* every seeded slot is booked and the logged-in user was told so
C12_Witness ==
    /\ lastCall.op = "available_slots"
    /\ lastCall.retSlots = <<>>
    /\ lastCall.sent = Note(current_user, MsgNoSlots)
    /\ \A s \in SlotIds : ~slots[s]

\* C13: register(name, password) returns false and leaves the users unchanged
\* when the name is registered already, whatever the password; otherwise it
\* appends one user with that name, that password and a fresh identity and
\* returns true; so no two registered users share a name.
C13_RegisterUniqueNames ==
    [][lastCall'.op = "register"
       => LET taken == \E k \in DOMAIN users : users[k].name = lastCall'.name
          IN /\ taken => (~lastCall'.ret /\ users' = users)
             /\ ~taken =>
                  /\ lastCall'.ret
                  /\ Len(users') = Len(users) + 1
                  /\ SubSeq(users', 1, Len(users)) = users
                  /\ users'[Len(users')].name = lastCall'.name
                  /\ users'[Len(users')].password = lastCall'.password
                  /\ \A k \in DOMAIN users :
                        users[k].id # users'[Len(users')].id
             /\ \A i, j \in DOMAIN users' :
                   i # j => users'[i].name # users'[j].name]_vars

\* a registered name was refused with another password
C13_Witness ==
    /\ lastCall.op = "register"
    /\ ~lastCall.ret
    /\ \E k \in DOMAIN users : /\ users[k].name = lastCall.name
                               /\ users[k].password # lastCall.password
    /\ Len(users) = 2

\* the passwords login accepts for a name
Accepts(us, name) ==
    {q \in Passwords : \E k \in DOMAIN us : /\ us[k].name = name
                                            /\ us[k].password = q}

\* C14: login(name, password) returns true exactly when a registered user has
\* that name and that password and then makes that user the current user; a
\* successful register(n, p) makes login accept p and nothing else for n, and
\* a rejected register changes nothing login accepts.
C14_LoginExactMatch ==
    [][/\ lastCall'.op = "login"
          => /\ lastCall'.ret <=> (lastCall'.password \in Accepts(users, lastCall'.name))
             /\ lastCall'.ret
                => /\ current_user'.name = lastCall'.name
                   /\ current_user'.password = lastCall'.password
                   /\ \E k \in DOMAIN users : users[k] = current_user'
       /\ (lastCall'.op = "register" /\ lastCall'.ret)
          => Accepts(users', lastCall'.name) = {lastCall'.password}
       /\ (lastCall'.op = "register" /\ ~lastCall'.ret)
          => \A n \in Names : Accepts(users', n) = Accepts(users, n)]_vars

\* a registered user was refused with a wrong password while the other user
\* stays logged in
C14_Witness ==
    /\ lastCall.op = "login"
    /\ ~lastCall.ret
    /\ Accepts(users, lastCall.name) # {}
    /\ current_user # None
    /\ current_user.name # lastCall.name

\* C15: no operation deletes an entity: the users and the appointments only
\* grow, an appointment changes only in status and slot, the slot collection
\* keeps its seeded members, and list_doctors() returns every seeded doctor.
C15_NothingIsDeleted ==
    [][/\ Len(users') >= Len(users)
       /\ SubSeq(users', 1, Len(users)) = users
       /\ Len(appointments') >= Len(appointments)
       /\ \A i \in DOMAIN appointments :
             /\ appointments'[i].id = appointments[i].id
             /\ appointments'[i].patient = appointments[i].patient
             /\ appointments'[i].doctor = appointments[i].doctor
       /\ DOMAIN slots' = SlotIds
       /\ lastCall'.op = "list_doctors"
          => /\ Len(lastCall'.retDoctors) = NumDoctors
             /\ \A d \in DoctorIds :
                   \E k \in DOMAIN lastCall'.retDoctors :
                       lastCall'.retDoctors[k] = d]_vars

\* the doctors are listed after an appointment was canceled
C15_Witness ==
    /\ lastCall.op = "list_doctors"
    /\ Len(users) = 2
    /\ Len(appointments) = 2
    /\ \E i \in DOMAIN appointments : appointments[i].status = CANCELED

\* the stages of the end-to-end scenario
Seeded ==
    /\ users = <<>>
    /\ appointments = <<>>
    /\ current_user = None
    /\ \A s \in SlotIds : slots[s]

AliceRegistered ==
    /\ Len(users) = 1
    /\ users[1].name = "alice"
    /\ users[1].password = "pw1"
    /\ appointments = <<>>
    /\ \A s \in SlotIds : slots[s]

AliceLoggedIn == AliceRegistered /\ current_user = users[1]

AliceBooked(status) ==
    /\ Len(users) = 1
    /\ users[1].name = "alice"
    /\ users[1].password = "pw1"
    /\ current_user = users[1]
    /\ Len(appointments) = 1
    /\ appointments[1].patient = users[1]
    /\ appointments[1].doctor = 1
    /\ appointments[1].slot = 0
    /\ appointments[1].status = status
    /\ \A s \in SlotIds : slots[s] <=> (s # 0 \/ status = CANCELED)

\* C16: on the seeded system register("alice","pw1") and login("alice","pw1")
\* succeed, available_slots() returns the 5 seeded slots, after
\* create_appointment(doctor1, slot0) user_appointments() has one Active
\* appointment and available_slots() lacks slot0, and after cancel_appointment
\* of its id user_appointments() is empty and slot0 is available.
C16_EndToEnd ==
    [][/\ (/\ Seeded
           /\ lastCall'.op = "register"
           /\ lastCall'.name = "alice"
           /\ lastCall'.password = "pw1")
          => (lastCall'.ret /\ (AliceRegistered /\ current_user = None)')
       /\ (/\ AliceRegistered
           /\ current_user = None
           /\ lastCall'.op = "login"
           /\ lastCall'.name = "alice"
           /\ lastCall'.password = "pw1")
          => (lastCall'.ret /\ AliceLoggedIn')
       /\ (AliceLoggedIn /\ lastCall'.op = "available_slots")
          => lastCall'.retSlots = [k \in 1 .. NumSlots |-> k - 1]
       /\ (/\ AliceLoggedIn
           /\ lastCall'.op = "create_appointment"
           /\ lastCall'.doctor = 1
           /\ lastCall'.slot = 0)
          => AliceBooked(ACTIVE)'
       /\ (AliceBooked(ACTIVE) /\ lastCall'.op = "user_appointments")
          => /\ Len(lastCall'.retAppointments) = 1
             /\ lastCall'.retAppointments[1].status = ACTIVE
       /\ (AliceBooked(ACTIVE) /\ lastCall'.op = "available_slots")
          => \A k \in DOMAIN lastCall'.retSlots : lastCall'.retSlots[k] # 0
       /\ (/\ AliceBooked(ACTIVE)
           /\ lastCall'.op = "cancel_appointment"
           /\ lastCall'.id = appointments[1].id)
          => AliceBooked(CANCELED)'
       /\ (AliceBooked(CANCELED) /\ lastCall'.op = "user_appointments")
          => lastCall'.retAppointments = <<>>]_vars

\* the scenario has run to its end
C16_Witness ==
    /\ AliceBooked(CANCELED)
    /\ slots[0]
    /\ lastCall.op = "user_appointments"
    /\ lastCall.retAppointments = <<>>

\* C17: the current user is absent or a registered user; a failed login leaves
\* it unchanged, a successful login replaces it, no other operation changes
\* it, and once present it is never absent again.
C17_OneSession ==
    [][/\ \/ current_user' = None
          \/ \E k \in DOMAIN users' : users'[k] = current_user'
       /\ (lastCall'.op = "login" /\ ~lastCall'.ret)
          => current_user' = current_user
       /\ (lastCall'.op = "login" /\ lastCall'.ret)
          => current_user'.name = lastCall'.name
       /\ lastCall'.op # "login" => current_user' = current_user
       /\ current_user # None => current_user' # None]_vars

\* a login failed while a user was logged in, who stays logged in
C17_Witness ==
    /\ lastCall.op = "login"
    /\ ~lastCall.ret
    /\ current_user # None
    /\ Len(users) = 2

\* C18: a successful reschedule_appointment changes only the slot reference
\* of its appointment and the availability of the old and the new slot.
C18_RescheduleFrame ==
    [][\A i \in DOMAIN appointments :
          (/\ lastCall'.op = "reschedule_appointment"
           /\ slots[lastCall'.slot]
           /\ Matches(i, lastCall'.id))
          => (/\ Len(appointments') = Len(appointments)
              /\ appointments'[i] =
                     [appointments[i] EXCEPT !.slot = lastCall'.slot]
              /\ \A j \in DOMAIN appointments :
                    j # i => appointments'[j] = appointments[j]
              /\ \A s \in SlotIds :
                    s \notin {appointments[i].slot, lastCall'.slot}
                    => slots'[s] = slots[s]
              /\ UNCHANGED <<users, current_user>>)]_vars

\* an appointment was moved while another Active appointment holds a third
\* slot
C18_Witness ==
    /\ lastCall.op = "reschedule_appointment"
    /\ lastCall.sent = Note(current_user, MsgRescheduled)
    /\ Len(appointments) = 2
    /\ \E i, j \in DOMAIN appointments :
          /\ appointments[i].id = lastCall.id
          /\ appointments[i].slot = lastCall.slot
          /\ appointments[j].status = ACTIVE
          /\ appointments[j].slot # lastCall.slot

\* C19: publish_task appends the new task, whose subject is the publisher's,
\* exactly once to the inbox of every student attached to that publisher at
\* that moment and to no other inbox; no other call touches an inbox; a
\* student who attaches is attached (once), one who detaches is not, and
\* neither call touches another publisher's observers.
C19_ObserverDelivery ==
    [][/\ obsCall'.op = "publish_task"
          => /\ obsCall'.task.subject = obsCall'.publisher
             /\ \A s \in Students :
                   inbox'[s] =
                       IF \E k \in DOMAIN observers[obsCall'.publisher] :
                              observers[obsCall'.publisher][k] = s
                       THEN Append(inbox[s], obsCall'.task)
                       ELSE inbox[s]
       /\ obsCall'.op # "publish_task" => inbox' = inbox
       /\ obsCall'.op = "subscribe_to"
          => Cardinality({k \in DOMAIN observers'[obsCall'.publisher] :
                 observers'[obsCall'.publisher][k] = obsCall'.student}) = 1
       /\ obsCall'.op = "unsubscribe_from"
          => \A k \in DOMAIN observers'[obsCall'.publisher] :
                 observers'[obsCall'.publisher][k] # obsCall'.student
       /\ \A p \in Publishers :
             p # obsCall'.publisher => observers'[p] = observers[p]]_vars

\* an attached student got the publisher's second task, while a student who
\* got the first one, detached and is attached to the other publisher did not
C19_Witness ==
    /\ obsCall.op = "publish_task"
    /\ \E s, d \in Students :
          /\ s # d
          /\ Contains(observers[obsCall.publisher], s)
          /\ inbox[s] = <<obsCall.task, obsCall.task>>
          /\ ~Contains(observers[obsCall.publisher], d)
          /\ inbox[d] = <<obsCall.task>>
          /\ \E q \in Publishers : /\ q # obsCall.publisher
                                   /\ Contains(observers[q], d)

Range(seq) == {seq[k] : k \in DOMAIN seq}

NoRepeat(seq) == \A k, l \in DOMAIN seq : k # l => seq[k] # seq[l]

SpiralFinished == city.strategy = "spiral" /\ gen.pc = "done"

\* C20: on every non-empty rectangular matrix SpiralTraversal.traverse
\* terminates, raises nothing and yields no cell twice, and when it has ended
\* it has yielded every cell, the cells RowByRowTraversal yielded, and
\* print_empty_houses has printed each empty house once under either strategy.
C20_SpiralVisitsEachHouseOnce ==
    /\ [](/\ gen.pc # "IndexError"
          /\ NoRepeat(yielded["spiral"])
          /\ SpiralFinished
             => /\ Len(yielded["spiral"]) = city.rows * city.cols
                /\ Range(yielded["spiral"]) = Cells(city.rows, city.cols)
                /\ Range(yielded["spiral"]) = Range(yielded["rows"])
                /\ Len(yielded["rows"]) = city.rows * city.cols
                /\ Range(printed["spiral"]) = city.empty
                /\ Range(printed["rows"]) = city.empty
                /\ NoRepeat(printed["spiral"])
                /\ NoRepeat(printed["rows"]))
    /\ <>SpiralFinished

\* the spiral has ended on a matrix of one column whose empty houses it
\* printed
C20_Witness ==
    /\ SpiralFinished
    /\ city.rows = MaxRows
    /\ city.cols = 1
    /\ Len(yielded["spiral"]) = MaxRows
    /\ Len(printed["spiral"]) = 2

\* the purchase sum: quantity times price over the products of the order
PurchaseSum(products) ==
    LET f[n \in 0 .. Len(products)] ==
            IF n = 0 THEN 0
            ELSE f[n - 1] + products[n].quantity * products[n].price
    IN f[Len(products)]

\* C21: in the order produced by OrderBuilder.build the Z percent tax is
\* applied exactly when the purchase sum of the order is greater than A,
\* whether or not the other two taxes are applied.
C21_TotalSumTaxOnPurchaseSum ==
    orderCall.op = "get_price"
    => (orderCall.total <=> PurchaseSum(builder.products) > order.A)

====
